---- MODULE Spec2Model ----
(***************************************************************************)
(* Model of hsbt (Hetzner storage box tool).                               *)
(*                                                                         *)
(*  - ConfigFileEditor (hsbt/utils.py): the marked-block editor of line    *)
(*    based config files such as /etc/fstab.              specification    *)
(*    Spec                                                                 *)
(*  - open_process / run_command (hsbt/utils.py).         SpecProc         *)
(*  - ConnectionManager, KeyManager, HetznerStorageBox and the click       *)
(*    commands of hsbt/cli.py.                            SpecCli          *)
(*                                                                         *)
(* A text file is the sequence of its lines; a line is a string without a  *)
(* line break.                                                             *)
(***************************************************************************)
EXTENDS Integers, Sequences, FiniteSets, TLC

VARIABLES
    target_file,    \* ConfigFileEditor.target_file on disk: [exists, lines]
    ed_call,        \* the last ConfigFileEditor call: name, arguments, outcome
    ed_fresh,       \* the file the editor started on held no delimiter line
    ed_plain,       \* no content list given so far held a delimiter line
    child,          \* the subprocess of open_process and its stdout pipe
    reader,         \* open_process/run_command: position, locals, outcome
    config_files,   \* the connection config files (JSON), by path
    box,            \* the storage box and the key files, as ssh finds them
    cli,            \* the last hsbt command: arguments and outcome
    trace           \* what the last hsbt command ran and asked, in order

ed_vars == <<target_file, ed_call, ed_fresh, ed_plain>>
proc_vars == <<child, reader>>
cli_vars == <<config_files, box, cli, trace>>

vars == <<ed_vars, proc_vars, cli_vars>>

(***************************************************************************)
(* Bounds of the model.                                                    *)
(***************************************************************************)
MaxInitLen == 3       \* lines of the file the editor starts on
MaxFileLen == 6       \* set_config_entry is not called on a longer file
MaxChildLines == 2    \* lines the subprocess writes to its stdout

\* ConfigFileEditor.__init__ defaults
line_comment_line_delimiter == "#"
source_hint == "CONFIG LINES GENERATED BY HSBT SCRIPT"
base_identifier == ""

Identifiers == {"m1", "m2"}
PlainLines == {"x", "y"}

\* a start delimiter that forgets the identifier
get_start_delimiter_shared(identifier) ==
    line_comment_line_delimiter \o " <" \o source_hint \o " '"
        \o base_identifier \o "/" \o "'>"

get_start_delimiter(identifier) ==
    line_comment_line_delimiter \o " <" \o source_hint \o " '"
        \o base_identifier \o "/" \o identifier \o "'>"

get_end_delimiter(identifier) ==
    line_comment_line_delimiter \o " </" \o source_hint \o " '"
        \o base_identifier \o "/" \o identifier \o "'>"

DelimiterLines ==
    {get_start_delimiter(i) : i \in Identifiers}
        \cup {get_end_delimiter(i) : i \in Identifiers}

Lines == PlainLines \cup DelimiterLines

SeqsUpTo(S, n) == UNION {[1..k -> S] : k \in 0..n}

(***************************************************************************)
(* ConfigFileEditor.ConfigFile: the in-memory file.  lines is the list of  *)
(* Line objects (content, removed); a Line object is named by its place in *)
(* the list, so current_line is an index into lines (0 for None) that      *)
(* moves with the object when lines are inserted before it.  cursor is the *)
(* Python (0-based) index of the next line handed out.                     *)
(***************************************************************************)
Line(content) == [content |-> content, removed |-> FALSE]

read(disk_lines) ==
    [lines |-> [i \in 1..Len(disk_lines) |-> Line(disk_lines[i])],
     cursor |-> 0,
     current_line |-> 0,
     record |-> TRUE]

is_empty(file) == Len(file.lines) = 0

remove(file, line) == [file EXCEPT !.lines[line].removed = TRUE]

is_(file, line, val) == file.lines[line].content = val

\* Line.number: the 0-based index of the line in file.lines
number(file, line) == line - 1

is_last(file, line) == number(file, line) + 1 = Len(file.lines)

\* next_line that never drops the line it leaves
next_line_keeps(file) ==
    [file EXCEPT !.current_line = file.cursor + 1, !.cursor = file.cursor + 1]

next_line(file) ==
    LET f1 == IF ~file.record /\ file.current_line # 0
              THEN remove(file, file.current_line)
              ELSE file
    IN [f1 EXCEPT !.current_line = file.cursor + 1,
                  !.cursor = file.cursor + 1]

\* list.insert(index, line) with a 0-based index, then cursor += 1
insert_line(file, line, index) ==
    LET at == IF index > Len(file.lines) THEN Len(file.lines) ELSE index
    IN [file EXCEPT
          !.lines = SubSeq(file.lines, 1, at) \o <<Line(line)>>
                        \o SubSeq(file.lines, at + 1, Len(file.lines)),
          !.cursor = file.cursor + 1,
          !.current_line = IF file.current_line # 0 /\ at < file.current_line
                           THEN file.current_line + 1
                           ELSE file.current_line]

RECURSIVE insert_lines_from(_, _, _, _)
insert_lines_from(file, lines, index, no) ==
    IF no > Len(lines) THEN file
    ELSE insert_lines_from(insert_line(file, lines[no], index + (no - 1)),
                           lines, index, no + 1)

insert_lines(file, lines, index) == insert_lines_from(file, lines, index, 1)

\* Line.insert_after: inserts at the line's own index
insert_after(file, line, lines) == insert_lines(file, lines, number(file, line))

RECURSIVE attach_lines(_, _)
attach_lines(file, lines) ==
    IF lines = <<>> THEN file
    ELSE attach_lines(insert_line(file, Head(lines), Len(file.lines)), Tail(lines))

\* a save that writes the removed lines too
save_all(file) == [i \in 1..Len(file.lines) |-> file.lines[i].content]

\* ConfigFile.save: the contents of the lines that are not removed
save(file) ==
    LET kept == SelectSeq(file.lines, LAMBDA l : ~l.removed)
    IN [i \in 1..Len(kept) |-> kept[i].content]

(***************************************************************************)
(* get_config_entry: the loop over the lines of an existing, non-empty     *)
(* file.                                                                   *)
(***************************************************************************)
\* a loop that collects the line before it looks for the end delimiter
RECURSIVE get_loop_end_kept(_, _, _, _, _)
get_loop_end_kept(file, start_delimiter, end_delimiter, cursor_in_entry, result) ==
    LET f1 == next_line(file)
        line == f1.current_line
        res == IF cursor_in_entry THEN Append(result, f1.lines[line].content)
               ELSE result
        in1 == IF is_(f1, line, end_delimiter) THEN FALSE ELSE cursor_in_entry
        in2 == IF is_(f1, line, start_delimiter) THEN TRUE ELSE in1
    IN IF is_last(f1, line) THEN res
       ELSE get_loop_end_kept(f1, start_delimiter, end_delimiter, in2, res)

RECURSIVE get_loop(_, _, _, _, _)
get_loop(file, start_delimiter, end_delimiter, cursor_in_entry, result) ==
    LET f1 == next_line(file)
        line == f1.current_line
        in1 == IF is_(f1, line, end_delimiter) THEN FALSE ELSE cursor_in_entry
        res == IF in1 THEN Append(result, f1.lines[line].content) ELSE result
        in2 == IF is_(f1, line, start_delimiter) THEN TRUE ELSE in1
    IN IF is_last(f1, line) THEN res
       ELSE get_loop(f1, start_delimiter, end_delimiter, in2, res)

get_config_entry(disk, identifier) ==
    IF ~disk.exists THEN <<>>
    ELSE LET file == read(disk.lines)
         IN IF is_empty(file) THEN <<>>
            ELSE get_loop(file, get_start_delimiter(identifier),
                          get_end_delimiter(identifier), FALSE, <<>>)

(***************************************************************************)
(* set_config_entry.  content is a list of lines; the empty list stands    *)
(* for every falsy content (None, "", []), a string content for the list   *)
(* of that one string.                                                     *)
(***************************************************************************)
\* a loop that forgets that it has put the content in place
RECURSIVE set_loop_forgets(_, _, _, _, _)
set_loop_forgets(file, content, start_delimiter, end_delimiter, content_inserted) ==
    LET f1 == next_line(file)
        line1 == f1.current_line
        f2 == IF is_(f1, line1, start_delimiter)
              THEN [remove(f1, line1) EXCEPT !.record = FALSE]
              ELSE f1
        at_end == is_(f2, line1, end_delimiter)
        f3 == IF at_end THEN [remove(f2, line1) EXCEPT !.record = TRUE] ELSE f2
        f4 == IF at_end /\ content # <<>>
              THEN insert_after(f3, line1,
                                <<start_delimiter>> \o content \o <<end_delimiter>>)
              ELSE f3
    IN IF is_last(f4, f4.current_line)
       THEN [file |-> f4, content_inserted |-> FALSE]
       ELSE set_loop_forgets(f4, content, start_delimiter, end_delimiter, FALSE)

RECURSIVE set_loop(_, _, _, _, _)
set_loop(file, content, start_delimiter, end_delimiter, content_inserted) ==
    LET f1 == next_line(file)
        line1 == f1.current_line
        f2 == IF is_(f1, line1, start_delimiter)
              THEN [remove(f1, line1) EXCEPT !.record = FALSE]
              ELSE f1
        at_end == is_(f2, line1, end_delimiter)
        f3 == IF at_end THEN [remove(f2, line1) EXCEPT !.record = TRUE] ELSE f2
        f4 == IF at_end /\ content # <<>>
              THEN insert_after(f3, line1,
                                <<start_delimiter>> \o content \o <<end_delimiter>>)
              ELSE f3
        inserted == content_inserted \/ at_end
    IN IF is_last(f4, f4.current_line)
       THEN [file |-> f4, content_inserted |-> inserted]
       ELSE set_loop(f4, content, start_delimiter, end_delimiter, inserted)

\* _validate_and_prepare_target on a path that is a file or missing
validate_and_prepare_target(disk, supress_creating) ==
    IF ~disk.exists /\ ~supress_creating
    THEN [exists |-> TRUE, lines |-> <<>>]
    ELSE disk

\* the result of set_config_entry: the file on disk afterwards, and whether
\* the call raised (open() of a missing file)
set_config_entry(disk, content, identifier) ==
    LET prepared == validate_and_prepare_target(disk, content = <<>>)
        start_delimiter == get_start_delimiter(identifier)
        end_delimiter == get_end_delimiter(identifier)
    IN IF ~prepared.exists
       THEN [disk |-> prepared, raised |-> "FileNotFoundError"]
       ELSE LET file == read(prepared.lines)
                looped == IF is_empty(file)
                          THEN [file |-> file, content_inserted |-> FALSE]
                          ELSE set_loop(file, content, start_delimiter,
                                        end_delimiter, FALSE)
                attached == IF ~looped.content_inserted /\ content # <<>>
                            THEN attach_lines(looped.file,
                                     <<start_delimiter>> \o content
                                         \o <<end_delimiter>>)
                            ELSE looped.file
            IN [disk |-> [exists |-> TRUE, lines |-> save(attached)],
                raised |-> "none"]

remove_config_entry(disk, identifier) == set_config_entry(disk, <<>>, identifier)

(***************************************************************************)
(* The editor as a state machine: calls on one target file.  The file the  *)
(* editor starts on is any short text, delimiter lines included; the       *)
(* content lists are two plain ones and one that holds a delimiter line.   *)
(***************************************************************************)
NoDelimiterLine(lines) == \A i \in 1..Len(lines) : lines[i] \notin DelimiterLines

Contents == {<<"x">>, <<"y", "x">>, <<get_end_delimiter("m1")>>}

EdInit ==
    /\ \E e \in BOOLEAN, ls \in SeqsUpTo(Lines, MaxInitLen) :
          /\ (~e => ls = <<>>)
          /\ target_file = [exists |-> e, lines |-> ls]
          /\ ed_fresh = NoDelimiterLine(ls)
    /\ ed_plain = TRUE
    /\ ed_call = [name |-> "none", identifier |-> "", content |-> <<>>, before |-> [exists |-> FALSE, lines |-> <<>>],
                  raised |-> "none", ret |-> <<>>]

SetConfigEntry ==
    \E content \in Contents, identifier \in Identifiers :
        LET r == set_config_entry(target_file, content, identifier)
        IN /\ Len(target_file.lines) <= MaxFileLen
           /\ target_file' = r.disk
           /\ ed_call' = [name |-> "set", identifier |-> identifier,
                          content |-> content, before |-> target_file, raised |-> r.raised, ret |-> <<>>]
           /\ ed_plain' = (ed_plain /\ NoDelimiterLine(content))
           /\ UNCHANGED <<ed_fresh, proc_vars, cli_vars>>

RemoveConfigEntry ==
    \E identifier \in Identifiers :
        LET r == remove_config_entry(target_file, identifier)
        IN /\ target_file' = r.disk
           /\ ed_call' = [name |-> "remove", identifier |-> identifier,
                          content |-> <<>>, before |-> target_file, raised |-> r.raised, ret |-> <<>>]
           /\ UNCHANGED <<ed_fresh, ed_plain, proc_vars, cli_vars>>

GetConfigEntry ==
    \E identifier \in Identifiers :
        /\ ed_call' = [name |-> "get", identifier |-> identifier,
                       content |-> <<>>, before |-> target_file, raised |-> "none",
                       ret |-> get_config_entry(target_file, identifier)]
        /\ UNCHANGED <<target_file, ed_fresh, ed_plain, proc_vars, cli_vars>>

EdNext == SetConfigEntry \/ RemoveConfigEntry \/ GetConfigEntry

(***************************************************************************)
(* Vocabulary of the editor claims.                                        *)
(***************************************************************************)
Positions(lines, val) == {i \in 1..Len(lines) : lines[i] = val}

Count(lines, val) == Cardinality(Positions(lines, val))

IsDelimiterOf(line, identifier) ==
    line \in {get_start_delimiter(identifier), get_end_delimiter(identifier)}

NoDelimiterOf(lines, identifier) ==
    \A i \in 1..Len(lines) : ~IsDelimiterOf(lines[i], identifier)

\* identifier has one block in lines: one start delimiter, one end delimiter
\* after it
HasBlock(lines, identifier) ==
    /\ Count(lines, get_start_delimiter(identifier)) = 1
    /\ Count(lines, get_end_delimiter(identifier)) = 1
    /\ \A s \in Positions(lines, get_start_delimiter(identifier)) :
         \A e \in Positions(lines, get_end_delimiter(identifier)) : s < e

BlockStart(lines, identifier) ==
    CHOOSE s \in Positions(lines, get_start_delimiter(identifier)) : TRUE

BlockEnd(lines, identifier) ==
    CHOOSE e \in Positions(lines, get_end_delimiter(identifier)) : TRUE

\* every delimiter line belongs to a block: per identifier no delimiter at
\* all, or one start delimiter followed by its one end delimiter
BlocksWellFormed(lines) ==
    \A id \in Identifiers : NoDelimiterOf(lines, id) \/ HasBlock(lines, id)

\* no block lies within or across another one
BlocksApart(lines) ==
    \A id1, id2 \in Identifiers :
        (id1 # id2 /\ HasBlock(lines, id1) /\ HasBlock(lines, id2)) =>
            \/ BlockEnd(lines, id1) < BlockStart(lines, id2)
            \/ BlockEnd(lines, id2) < BlockStart(lines, id1)

\* position i lies between a start delimiter of identifier and the end
\* delimiter that closes it
InBlock(lines, identifier, i) ==
    \E s \in Positions(lines, get_start_delimiter(identifier)) :
        /\ s < i
        /\ \E e \in Positions(lines, get_end_delimiter(identifier)) : i < e
        /\ \A k \in s..i : lines[k] # get_end_delimiter(identifier)

\* the lines that are neither delimiters of identifier nor within its block
Outside(lines, identifier) ==
    LET keep == {i \in 1..Len(lines) :
                    /\ ~IsDelimiterOf(lines[i], identifier)
                    /\ ~InBlock(lines, identifier, i)}
        F[i \in 0..Len(lines)] ==
            IF i = 0 THEN <<>>
            ELSE IF i \in keep THEN Append(F[i - 1], lines[i]) ELSE F[i - 1]
    IN F[Len(lines)]

RECURSIVE IsSubsequence(_, _)
IsSubsequence(small, big) ==
    IF small = <<>> THEN TRUE
    ELSE IF big = <<>> THEN FALSE
    ELSE IF Head(small) = Head(big) THEN IsSubsequence(Tail(small), Tail(big))
    ELSE IsSubsequence(small, Tail(big))

Block(identifier, content) ==
    <<get_start_delimiter(identifier)>> \o content
        \o <<get_end_delimiter(identifier)>>

EdSet == ed_call.name = "set" /\ ed_call.raised = "none"
EdRemove == ed_call.name = "remove" /\ ed_call.raised = "none"

(***************************************************************************)
(* C1: set_config_entry is idempotent: on every existing file, for every   *)
(* identifier X and non-empty content list c without a delimiter of X, a   *)
(* second set_config_entry(c, X) leaves the lines the first one left.      *)
(***************************************************************************)
C1_SetIdempotent ==
    (/\ EdSet
     /\ ed_call.before.exists
     /\ NoDelimiterOf(ed_call.content, ed_call.identifier))
    => set_config_entry(target_file, ed_call.content, ed_call.identifier).disk
         = target_file

\* a block of X that was in the file has been replaced by another content
C1_Witness ==
    /\ EdSet
    /\ ed_call.before.exists
    /\ ~ed_fresh
    /\ HasBlock(ed_call.before.lines, ed_call.identifier)
    /\ ed_call.before.lines # target_file.lines
    /\ NoDelimiterOf(ed_call.content, ed_call.identifier)

(***************************************************************************)
(* C2, as claimed: after set_config_entry(c, X) with a non-empty c,        *)
(* get_config_entry(X) returns c, in every file the calls build from a     *)
(* file without delimiter lines.                                           *)
(***************************************************************************)
C2_RoundTrip_Claimed ==
    (EdSet /\ ed_fresh)
    => get_config_entry(target_file, ed_call.identifier) = ed_call.content

(***************************************************************************)
(* C2, amended: the round trip holds when neither c nor any content list   *)
(* given before holds a delimiter line.                                    *)
(***************************************************************************)
C2_RoundTrip ==
    (EdSet /\ ed_fresh /\ ed_plain)
    => get_config_entry(target_file, ed_call.identifier) = ed_call.content

\* a two-line content has been set in a file that holds another block too
C2_Witness ==
    /\ EdSet /\ ed_fresh /\ ed_plain
    /\ Len(ed_call.content) = 2
    /\ \E id \in Identifiers :
          id # ed_call.identifier /\ HasBlock(target_file.lines, id)

(***************************************************************************)
(* C3: remove_config_entry(X) on an existing file leaves neither a         *)
(* delimiter of X nor a line that was between them, get_config_entry(X)    *)
(* then returns [], a second remove changes nothing, and so does a remove  *)
(* on a file without a delimiter of X.                                     *)
(***************************************************************************)
C3_RemoveBlock ==
    (ed_call.name = "remove" /\ ed_call.before.exists)
    => /\ ed_call.raised = "none"
       /\ NoDelimiterOf(target_file.lines, ed_call.identifier)
       /\ IsSubsequence(target_file.lines,
                        Outside(ed_call.before.lines, ed_call.identifier))
       /\ get_config_entry(target_file, ed_call.identifier) = <<>>
       /\ remove_config_entry(target_file, ed_call.identifier).disk = target_file
       /\ NoDelimiterOf(ed_call.before.lines, ed_call.identifier)
             => target_file = ed_call.before

\* a block with a line in it has been removed from between other lines
C3_Witness ==
    /\ EdRemove
    /\ HasBlock(ed_call.before.lines, ed_call.identifier)
    /\ BlockEnd(ed_call.before.lines, ed_call.identifier)
         > BlockStart(ed_call.before.lines, ed_call.identifier) + 1
    /\ target_file.lines # <<>>

(***************************************************************************)
(* C4, as claimed: from a file without delimiter lines every sequence of   *)
(* calls leaves at most one start and one end delimiter per identifier,    *)
(* the start first, and a set on an identifier that has a block replaces   *)
(* the block where it stands.                                              *)
(***************************************************************************)
AtMostOneBlock(lines) ==
    \A id \in Identifiers :
        /\ Count(lines, get_start_delimiter(id)) <= 1
        /\ Count(lines, get_end_delimiter(id)) <= 1
        /\ \A s \in Positions(lines, get_start_delimiter(id)) :
             \A e \in Positions(lines, get_end_delimiter(id)) : s < e

ReplacedInPlace ==
    (EdSet /\ HasBlock(ed_call.before.lines, ed_call.identifier))
    => LET b == ed_call.before.lines
           s == BlockStart(b, ed_call.identifier)
           e == BlockEnd(b, ed_call.identifier)
       IN target_file.lines =
             SubSeq(b, 1, s - 1) \o Block(ed_call.identifier, ed_call.content)
                 \o SubSeq(b, e + 1, Len(b))

C4_NeverDuplicate_Claimed ==
    ed_fresh => (AtMostOneBlock(target_file.lines) /\ ReplacedInPlace)

(***************************************************************************)
(* C4, amended: the same, for calls whose content lists hold no delimiter  *)
(* line.                                                                   *)
(***************************************************************************)
C4_NeverDuplicate ==
    (ed_fresh /\ ed_plain)
    => (AtMostOneBlock(target_file.lines) /\ ReplacedInPlace)

\* a block that is followed by another line has been replaced
C4_Witness ==
    /\ EdSet /\ ed_fresh /\ ed_plain
    /\ HasBlock(ed_call.before.lines, ed_call.identifier)
    /\ BlockEnd(ed_call.before.lines, ed_call.identifier)
         < Len(ed_call.before.lines)
    /\ target_file # ed_call.before

(***************************************************************************)
(* C5, as claimed: in a file whose blocks are well formed a set or remove  *)
(* on X leaves the lines outside the block of X as they were, and          *)
(* get_config_entry(Y) as it was for every other identifier Y.             *)
(***************************************************************************)
FrameKept ==
    /\ Outside(target_file.lines, ed_call.identifier)
         = Outside(ed_call.before.lines, ed_call.identifier)
    /\ \A id \in Identifiers \ {ed_call.identifier} :
          get_config_entry(target_file, id) = get_config_entry(ed_call.before, id)

C5_Frame_Claimed ==
    (/\ EdSet \/ EdRemove
     /\ ed_call.before.exists
     /\ BlocksWellFormed(ed_call.before.lines))
    => FrameKept

(***************************************************************************)
(* C5, amended: the frame holds when, besides, no block lies within or     *)
(* across another one and the content holds no delimiter line.             *)
(***************************************************************************)
C5_Frame ==
    (/\ EdSet \/ EdRemove
     /\ ed_call.before.exists
     /\ BlocksWellFormed(ed_call.before.lines)
     /\ BlocksApart(ed_call.before.lines)
     /\ NoDelimiterLine(ed_call.content))
    => FrameKept

\* the block of X has been changed in a file that holds a block of Y with a
\* line in it
C5_Witness ==
    /\ EdSet \/ EdRemove
    /\ BlocksWellFormed(ed_call.before.lines)
    /\ BlocksApart(ed_call.before.lines)
    /\ NoDelimiterLine(ed_call.content)
    /\ HasBlock(ed_call.before.lines, ed_call.identifier)
    /\ target_file # ed_call.before
    /\ \E id \in Identifiers \ {ed_call.identifier} :
          get_config_entry(ed_call.before, id) # <<>>


(***************************************************************************)
(* The editor at rest, for the specifications of the other components.     *)
(***************************************************************************)
EdIdle ==
    /\ target_file = [exists |-> FALSE, lines |-> <<>>]
    /\ ed_fresh = TRUE
    /\ ed_plain = TRUE
    /\ ed_call = [name |-> "none", identifier |-> "", content |-> <<>>,
                  before |-> [exists |-> FALSE, lines |-> <<>>],
                  raised |-> "none", ret |-> <<>>]

ProcIdle ==
    /\ child = [script |-> <<>>, code |-> 0, written |-> 0, pipe |-> <<>>,
                exited |-> TRUE]
    /\ reader = [pc |-> "idle", raise_error |-> FALSE, stdout_lines |-> <<>>,
                 stdout_current |-> <<>>, outcome |-> "none",
                 return_code |-> 0, error_for_raise |-> FALSE]

(***************************************************************************)
(* open_process and run_command.  The subprocess writes the lines of its   *)
(* script to the stdout pipe and exits with its code; the reader runs the  *)
(* loop of open_process.  A line is the tuple of its characters (without   *)
(* the line break); None and "" of stdout_current are both the empty       *)
(* tuple, the code tells them apart nowhere.  stdout of the CommandResult  *)
(* is the list stdout_lines that "\n".join puts together.                  *)
(***************************************************************************)
ExitCodes == {0, 1, 255}
ChildLines == {<<"a">>, <<" ", "b", " ">>, <<" ">>}

\* str.strip()
RECURSIVE lstrip(_)
lstrip(line) ==
    IF line # <<>> /\ Head(line) = " " THEN lstrip(Tail(line)) ELSE line

RECURSIVE rstrip(_)
rstrip(line) ==
    IF line # <<>> /\ line[Len(line)] = " "
    THEN rstrip(SubSeq(line, 1, Len(line) - 1))
    ELSE line

strip(line) == rstrip(lstrip(line))

\* lines 169-174: keep the line read last, then poll the subprocess
poll_step(r, c) ==
    LET kept == IF r.stdout_current # <<>>
                THEN [r EXCEPT !.stdout_lines = Append(@, r.stdout_current),
                               !.stdout_current = <<>>]
                ELSE r
    IN [kept EXCEPT !.pc = IF c.exited THEN "after" ELSE "readline"]

\* an end that reports an error for exit code 255 only
finish_ssh_only(r, c) ==
    LET failed == c.code = 255
    IN [r EXCEPT !.pc = "done",
                 !.return_code = c.code,
                 !.error_for_raise = failed,
                 !.outcome = IF failed /\ r.raise_error
                             THEN "ChildProcessError" ELSE "returned"]

\* lines 179-187 and run_command lines 205-215: the end of the generator
finish(r, c) ==
    LET failed == c.code # 0
    IN [r EXCEPT !.pc = "done",
                 !.return_code = c.code,
                 !.error_for_raise = failed,
                 !.outcome = IF failed /\ r.raise_error
                             THEN "ChildProcessError" ELSE "returned"]

ProcInit ==
    /\ \E script \in SeqsUpTo(ChildLines, MaxChildLines), code \in ExitCodes :
          child = [script |-> script, code |-> code, written |-> 0,
                   pipe |-> <<>>, exited |-> FALSE]
    /\ \E raise_error \in BOOLEAN :
          reader = [pc |-> "loop", raise_error |-> raise_error,
                    stdout_lines |-> <<>>, stdout_current |-> <<>>,
                    outcome |-> "none", return_code |-> 0,
                    error_for_raise |-> FALSE]

ChildWrite ==
    /\ ~child.exited
    /\ child.written < Len(child.script)
    /\ child' = [child EXCEPT !.written = @ + 1,
                              !.pipe = Append(@, child.script[child.written + 1])]
    /\ UNCHANGED <<reader, ed_vars, cli_vars>>

ChildExit ==
    /\ ~child.exited
    /\ child.written = Len(child.script)
    /\ child' = [child EXCEPT !.exited = TRUE]
    /\ UNCHANGED <<reader, ed_vars, cli_vars>>

Poll ==
    /\ reader.pc = "loop"
    /\ reader' = poll_step(reader, child)
    /\ UNCHANGED <<child, ed_vars, cli_vars>>

\* readline blocks until the pipe holds a line or is at its end
ReadLine ==
    /\ reader.pc = "readline"
    /\ child.pipe # <<>> \/ child.exited
    /\ LET line == IF child.pipe # <<>> THEN Head(child.pipe) ELSE <<>>
       IN /\ reader' = [reader EXCEPT !.stdout_current = strip(line),
                                      !.pc = "loop"]
          /\ child' = [child EXCEPT !.pipe = IF @ # <<>> THEN Tail(@) ELSE @]
          /\ UNCHANGED <<ed_vars, cli_vars>>

Finish ==
    /\ reader.pc = "after"
    /\ child.exited
    /\ reader' = finish(reader, child)
    /\ UNCHANGED <<child, ed_vars, cli_vars>>

ProcNext == ChildWrite \/ ChildExit \/ Poll \/ ReadLine \/ Finish

(***************************************************************************)
(* C8: run_command with raise_error=True raises ChildProcessError exactly  *)
(* when the exit code is not 0; with raise_error=False it returns a        *)
(* CommandResult with the exit code as return_code and with                *)
(* error_for_raise set exactly when the exit code is not 0.                *)
(***************************************************************************)
C8_ErrorIffNonZero ==
    reader.pc = "done" =>
        IF reader.raise_error
        THEN (reader.outcome = "ChildProcessError") <=> (child.code # 0)
        ELSE /\ reader.outcome = "returned"
             /\ reader.return_code = child.code
             /\ reader.error_for_raise <=> (child.code # 0)

\* a subprocess that wrote a line and failed with a code other than 255 has
\* been run to its end without raise_error
C8_Witness ==
    /\ reader.pc = "done"
    /\ ~reader.raise_error
    /\ child.code = 1
    /\ child.script # <<>>
    /\ reader.error_for_raise

(***************************************************************************)
(* Python values of the command line model.  A path is the tuple of its    *)
(* components; the empty tuple is None (no Path is empty: Path("") is      *)
(* "."), and str() of a path is the path itself, str(None) the path        *)
(* "None".  A password value is a record that keeps its Python type.       *)
(***************************************************************************)
None == <<>>
py_str(path) == IF path = None THEN <<"None">> ELSE path

PyNone == [kind |-> "none", val |-> ""]
PyStr(val) == [kind |-> "str", val |-> val]
PyFalse == [kind |-> "bool", val |-> "False"]
PyPath(val) == [kind |-> "path", val |-> val]

\* the truth value Python gives a password value
truthy(value) ==
    \/ value.kind = "path"
    \/ value.kind = "str" /\ value.val # ""

Home == <<"/", "home", "usr">>

\* Path(parts): empty components (a trailing or doubled slash) are dropped
Path(parts) == SelectSeq(parts, LAMBDA c : c # "")

\* Path.expanduser
expanduser(path) ==
    IF path # <<>> /\ Head(path) = "~" THEN Home \o Tail(path) ELSE path

\* cast_path of None, a str or a Path
cast_path(path) == IF path = None THEN None ELSE expanduser(Path(path))

(***************************************************************************)
(* ConnectionManager.  A config file is absent or holds the JSON of a      *)
(* ConnectionList: the dict connections, a function from the identifiers   *)
(* stored to the Connection records.                                       *)
(***************************************************************************)
root_config_path == <<"/", "etc", "hetzner_sbt_connections.json">>
user_config_path == Home \o <<".config", "hetzner_sbt_connections.json">>
\* a config file of its own that '-c' can name
custom_config_path == <<"/", "srv", "hsbt.json">>
ConfigPaths == {root_config_path, user_config_path, custom_config_path}

\* os.access(source_file, os.W_OK) for a user other than root
writable(source_file) == source_file # root_config_path

NoFile == [exists |-> FALSE, connections |-> <<>>]

Connection(identifier, host, user, key_dir) ==
    [identifier |-> identifier, host |-> host, user |-> user, key_dir |-> key_dir]

\* ConnectionManager.__init__ with a target_config_file given
ConnectionManager(target_config_file) ==
    [target_config_file |-> cast_path(target_config_file),
     alternative_config_file_sources |-> <<root_config_path, user_config_path>>]

\* ConnectionList.parse_file of a source that is a readable file
parse_file(files, source_file) == files[source_file].connections

\* a ConnectionList.set_connection that overwrites without being told to
ConnectionList_set_connection_silent(connections, other_connection, ovewrite_existing, exist_ok) ==
    [raised |-> "none",
     connections |->
        [k \in DOMAIN connections \cup {other_connection.identifier} |->
            IF k = other_connection.identifier THEN other_connection
            ELSE connections[k]]]

\* a ConnectionList.set_connection that takes an existing entry as fine
ConnectionList_set_connection_exist_ok(connections, other_connection, ovewrite_existing, exist_ok) ==
    IF other_connection.identifier \in DOMAIN connections /\ ~ovewrite_existing
    THEN [raised |-> "ValueError", connections |-> connections]
    ELSE IF other_connection.identifier \in DOMAIN connections
    THEN [raised |-> "none", connections |-> connections]
    ELSE [raised |-> "none",
          connections |->
             [k \in DOMAIN connections \cup {other_connection.identifier} |->
                 IF k = other_connection.identifier THEN other_connection
                 ELSE connections[k]]]

ConnectionList_set_connection(connections, other_connection, ovewrite_existing, exist_ok) ==
    IF other_connection.identifier \in DOMAIN connections /\ ~ovewrite_existing
    THEN [raised |-> "ValueError", connections |-> connections]
    ELSE IF other_connection.identifier \in DOMAIN connections /\ exist_ok
    THEN [raised |-> "none", connections |-> connections]
    ELSE [raised |-> "none",
          connections |->
             [k \in DOMAIN connections \cup {other_connection.identifier} |->
                 IF k = other_connection.identifier THEN other_connection
                 ELSE connections[k]]]

\* ConnectionList.get_connection: None when the identifier is not stored
ConnectionList_get_connection(connections, identifier) ==
    IF identifier \in DOMAIN connections THEN connections[identifier] ELSE None

ConnectionList_remove_connection(connections, conid) ==
    [k \in DOMAIN connections \ {conid} |-> connections[k]]

\* list_connections(from_specific_config_file): the connections of one file
list_connections_of(files, source_file) ==
    IF files[source_file].exists THEN parse_file(files, source_file) ELSE <<>>

\* ConnectionManager.set_connection: the files afterwards, the Connection
\* built, and the exception raised
ConnectionManager_set_connection(conman, files, identifier, user, host, key_dir, overwrite_existing, exists_ok) ==
    LET existing_cons == list_connections_of(files, conman.target_config_file)
        con == Connection(identifier, host, user, py_str(key_dir))
        r == ConnectionList_set_connection(existing_cons, con,
                                           overwrite_existing, exists_ok)
    IN IF r.raised # "none"
       THEN [files |-> files, con |-> con, raised |-> r.raised]
       ELSE [files |-> [files EXCEPT ![conman.target_config_file] =
                           [exists |-> TRUE, connections |-> r.connections]],
             con |-> con,
             raised |-> "none"]

sources_of(conman) ==
    <<conman.target_config_file>> \o conman.alternative_config_file_sources

\* ConnectionManager.get_connection over the target file and the
\* alternative sources; None is the default
RECURSIVE get_connection_from(_, _, _, _)
get_connection_from(files, sources, identifier, no) ==
    IF no > Len(sources) THEN None
    ELSE LET con == IF files[sources[no]].exists
                    THEN ConnectionList_get_connection(
                             parse_file(files, sources[no]), identifier)
                    ELSE None
         IN IF con # None THEN con
            ELSE get_connection_from(files, sources, identifier, no + 1)

ConnectionManager_get_connection(conman, files, identifier) ==
    get_connection_from(files, sources_of(conman), identifier, 1)

\* ConnectionManager.delete_connection over the target file and the
\* alternative sources: the files afterwards, the value returned and the
\* exception raised
RECURSIVE delete_connection_from(_, _, _, _, _, _)
delete_connection_from(conman, files, sources, identifier, missing_ok, no) ==
    IF no > Len(sources)
    THEN [files |-> files,
          returned |-> IF missing_ok THEN "False" ELSE "none",
          raised |-> IF missing_ok THEN "none" ELSE "ValueError"]
    ELSE LET source_file == sources[no]
             conlist == parse_file(files, source_file)
         IN IF /\ files[source_file].exists
               /\ ConnectionList_get_connection(conlist, identifier) # None
            THEN IF ~writable(source_file)
                 THEN [files |-> files, returned |-> "none",
                       raised |-> "PermissionError"]
                 ELSE [files |->
                          [files EXCEPT ![conman.target_config_file] =
                              [exists |-> TRUE,
                               connections |->
                                  ConnectionList_remove_connection(
                                      conlist, identifier)]],
                       returned |-> "True",
                       raised |-> "none"]
            ELSE delete_connection_from(conman, files, sources, identifier,
                                        missing_ok, no + 1)

ConnectionManager_delete_connection(conman, files, identifier, missing_ok) ==
    delete_connection_from(conman, files, sources_of(conman), identifier, missing_ok, 1)

(***************************************************************************)
(* KeyManager and HetznerStorageBox.  The code runs in a context: the      *)
(* HetznerStorageBox object, the storage box and key files as ssh finds    *)
(* them, the trace of what was run and asked, the exception raised and the *)
(* value returned last.                                                    *)
(*                                                                         *)
(* box.key_files: the private key files that exist, each with its public   *)
(* key file; box.authorized: the private key files whose public key is in  *)
(* the authorized_keys of the storage box.  ssh with public key            *)
(* authentication succeeds (exit code 0) when the IdentityFile it is given *)
(* is such a file, and ends with 255 otherwise; with password              *)
(* authentication it succeeds with the password of the storage box and     *)
(* sshpass ends with 5 otherwise.                                          *)
(***************************************************************************)
BoxPassword == "secret"

\* the methods class KeyManager defines
KeyManagerMethods ==
    {"ssh_keygen", "gen_rfc4716_format_copy", "get_private_key",
     "get_public_key", "_get_known_host_path",
     "create_know_host_entry_if_not_exists", "known_host_entry_exists",
     "validate_if_keys_exists_and_valid"}

\* KeyManager.__init__
KeyManager(target_dir, identifier) ==
    [target_dir |-> IF target_dir = None THEN Home \o <<".ssh">>
                    ELSE Path(target_dir),
     identifier |-> IF identifier # "" THEN identifier ELSE "hsbt_key",
     private_key_path |-> None,
     public_key_path |-> None]

\* HetznerStorageBox.__init__
HetznerStorageBox(host, user, password, key_manager) ==
    [host |-> host, user |-> user, password |-> password,
     key_manager |-> key_manager]

from_connection(con) ==
    HetznerStorageBox(con.host, con.user, PyNone,
                      KeyManager(con.key_dir, con.identifier))

Context(hsbt, the_box) ==
    [hsbt |-> hsbt, box |-> the_box, trace |-> <<>>, raised |-> "none",
     ret |-> <<>>]

Event(kind, executor, auth, identity, pw, command, rc) ==
    [kind |-> kind, executor |-> executor, auth |-> auth, identity |-> identity,
     pw |-> pw, command |-> command, rc |-> rc]

Ran(ctx, executor, auth, identity, pw, command, rc) ==
    [ctx EXCEPT !.trace =
        Append(@, Event("run", executor, auth, identity, pw, command, rc))]

RanLocal(ctx, executor, command) ==
    Ran(ctx, executor, "", None, PyNone, command, 0)

Asked(ctx) ==
    [ctx EXCEPT !.trace =
        Append(@, Event("prompt", "click.prompt", "", None, PyNone, "", 0))]

Raise(ctx, exception) == [ctx EXCEPT !.raised = exception]

\* _get_ssh_options: the authentication the options ask for
get_ssh_options(hsbt, pw) ==
    IF truthy(pw)
    THEN [auth |-> "password", identity |-> None]
    ELSE [auth |-> "publickey",
          identity |-> py_str(hsbt.key_manager.private_key_path)]

\* the exit code of ssh, scp or ssh-copy-id run against the storage box
exit_code(the_box, auth, identity, pw) ==
    IF auth = "password"
    THEN IF pw.val = BoxPassword THEN 0 ELSE 5
    ELSE IF identity \in the_box.key_files \cap the_box.authorized
         THEN 0 ELSE 255

\* a dry run that starts the command before it returns it
dry_run_result_after_run(ctx, shown) ==
    [Ran(ctx, shown.executor, shown.auth, shown.identity, shown.pw,
         shown.command, 255)
       EXCEPT !.ret = [command |-> shown, ran |-> TRUE, return_code |-> None,
                       error_for_raise |-> FALSE, sftp_hint |-> FALSE]]

\* if dry_run: return CommandResult(command=remote_command); the other
\* fields keep their default None
dry_run_result(ctx, shown) ==
    [ctx EXCEPT !.ret = [command |-> shown, ran |-> FALSE, return_code |-> None,
                         error_for_raise |-> FALSE, sftp_hint |-> FALSE]]

\* run_remote_command; sftp_only: the storage box takes ssh-copy-id with
\* "-s" only and says so
RECURSIVE run_remote_command(_, _, _, _, _, _, _, _, _)
run_remote_command(ctx, command, pw, executor, on_keyauth_fail_retry_with_pw_auth, sftp_mode, raise_error, dry_run, sftp_only) ==
    LET options == get_ssh_options(ctx.hsbt, pw)
        shown == [executor |-> executor, auth |-> options.auth,
                  identity |-> options.identity, pw |-> pw, command |-> command]
        connected == exit_code(ctx.box, options.auth, options.identity, pw)
        refused == executor = "ssh-copy-id" /\ sftp_only /\ ~sftp_mode
        no_key == /\ executor = "ssh-copy-id"
                  /\ ctx.hsbt.key_manager.private_key_path \notin ctx.box.key_files
        rc == IF connected = 0 /\ (refused \/ no_key) THEN 1 ELSE connected
        ran == Ran(ctx, executor, options.auth, options.identity, pw, command, rc)
        done == IF executor = "ssh-copy-id" /\ rc = 0
                THEN [ran EXCEPT !.box.authorized =
                         @ \cup {ctx.hsbt.key_manager.private_key_path}]
                ELSE ran
        result == [command |-> shown, ran |-> TRUE, return_code |-> rc,
                   error_for_raise |-> rc # 0,
                   sftp_hint |-> connected = 0 /\ refused /\ ~no_key]
    IN IF dry_run
       THEN dry_run_result(ctx, shown)
       ELSE IF /\ rc # 0
               /\ on_keyauth_fail_retry_with_pw_auth
               /\ ctx.hsbt.password # PyNone
       THEN run_remote_command(done, command, ctx.hsbt.password, executor, FALSE,
                               sftp_mode, raise_error, FALSE, sftp_only)
       ELSE IF rc # 0 /\ raise_error
       THEN Raise(done, "ChildProcessError")
       ELSE [done EXCEPT !.ret = result]

\* public_key_is_deployed: True, False, or None for another exit code
public_key_is_deployed(ctx, sftp_only) ==
    LET c == run_remote_command(ctx, "exit", PyNone, "ssh", FALSE, FALSE, FALSE,
                                FALSE, sftp_only)
    IN [c EXCEPT !.ret = IF c.ret.return_code = 255 THEN "False"
                         ELSE IF c.ret.return_code = 0 THEN "True"
                         ELSE "None"]

\* validate_if_keys_exists_and_valid on key files that are valid when there
validate_if_keys_exists_and_valid(ctx) ==
    IF ctx.hsbt.key_manager.private_key_path \notin ctx.box.key_files
    THEN [ctx EXCEPT !.ret = "False"]
    ELSE [RanLocal(RanLocal(ctx, "ssh-keygen", "-l -f private_key_path"),
                   "ssh-keygen", "-l -f public_key_path")
            EXCEPT !.ret = "True"]

\* run_command of ssh-keygen -f private_key_path: a new key pair
generate_key(ctx) ==
    LET private_key_path == ctx.hsbt.key_manager.private_key_path
    IN [RanLocal(ctx, "ssh-keygen", "-b 2048 -t rsa -f private_key_path")
          EXCEPT !.box.key_files = @ \cup {private_key_path},
                 !.box.authorized = @ \ {private_key_path}]

\* KeyManager.ssh_keygen
ssh_keygen(ctx, overwrite_if_exists, exists_ok) ==
    LET km == ctx.hsbt.key_manager
        c0 == [ctx EXCEPT
                 !.hsbt.key_manager.private_key_path =
                     km.target_dir \o <<km.identifier>>,
                 !.hsbt.key_manager.public_key_path =
                     km.target_dir \o <<km.identifier \o ".pub">>]
        c1 == validate_if_keys_exists_and_valid(c0)
        c2 == validate_if_keys_exists_and_valid(c1)
    IN IF c1.ret = "True" /\ ~overwrite_if_exists /\ ~exists_ok
       THEN Raise(c1, "FileExistsError")
       ELSE IF c2.ret = "True" /\ ~overwrite_if_exists /\ exists_ok
       THEN c2
       ELSE generate_key(c2)

\* deploy_public_key_if_not_done
RECURSIVE deploy_public_key_if_not_done(_, _, _)
deploy_public_key_if_not_done(ctx, sftp_mode, sftp_only) ==
    IF "create_known_host_entry_if_not_exists" \notin KeyManagerMethods
    THEN Raise(ctx, "AttributeError")
    ELSE
    LET c1 == RanLocal(ctx, "ssh-keyscan", "host >> known_hosts")
        c2 == IF c1.hsbt.key_manager.private_key_path = None
              THEN ssh_keygen(c1, FALSE, TRUE)
              ELSE c1
        c3 == public_key_is_deployed(c2, sftp_only)
        c4 == run_remote_command(c3, "", PyNone, "ssh-copy-id", TRUE, sftp_mode,
                                 FALSE, FALSE, sftp_only)
    IN IF c2.raised # "none" THEN c2
       ELSE IF c3.ret = "True" THEN c3
       ELSE IF ~truthy(c3.hsbt.password)
       THEN Raise(c3, "DeployKeyPasswordMissingError")
       ELSE IF c4.ret.sftp_hint
       THEN deploy_public_key_if_not_done(c4, TRUE, sftp_only)
       ELSE IF c4.ret.error_for_raise THEN Raise(c4, "ChildProcessError")
       ELSE c4

(***************************************************************************)
(* The hsbt commands setConnection and remoteCmd, run by a user other than *)
(* root with no HSBT_ variable set but, at times, HSBT_PASSWORD.           *)
(***************************************************************************)
ConnectionIds == {"c1", "c2"}

\* what '-h', '-u' and '-s' are given as
Given ==
    {[host |-> "h1", user |-> "u1", ssh_key_dir |-> <<"~", ".ssh", "">>],
     [host |-> "h2", user |-> "u2", ssh_key_dir |-> <<"/", "keys">>]}

\* the connection remoteCmd is given: a stored one by '-i' (no host and no
\* user, here ""), or one on the fly
Targets ==
    {[identifier |-> i, host |-> "", user |-> "", ssh_key_dir |-> None] :
        i \in ConnectionIds}
    \cup {[identifier |-> "", host |-> g.host, user |-> g.user,
            ssh_key_dir |-> g.ssh_key_dir] : g \in Given}

\* the default of '-c' for a user other than root
ConfigFileParams == {<<"~", ".config", "hetzner_sbt_connections.json">>}

\* '-p': click hands the default False on as it is or as the string "False"
PasswordParams ==
    {[given |-> FALSE, value |-> PyFalse],
     [given |-> FALSE, value |-> PyStr("False")],
     [given |-> TRUE, value |-> PyStr(BoxPassword)]}

\* HSBT_PASSWORD, the answer to a password prompt, and whether the storage
\* box takes ssh-copy-id with "-s" only
Envs ==
    {[password |-> PyNone, answer |-> BoxPassword, sftp_only |-> FALSE],
     [password |-> PyNone, answer |-> "wrong", sftp_only |-> TRUE],
     [password |-> PyStr(BoxPassword), answer |-> BoxPassword, sftp_only |-> TRUE]}

\* the key files the connections of Given can have
KeyFiles ==
    {cast_path(g.ssh_key_dir) \o <<identifier>> :
        g \in Given, identifier \in ConnectionIds}

\* get_config_file_path and get_ssh_dir with the HSBT_ variables unset
get_config_file_path(caller_param_config_file_path) ==
    cast_path(caller_param_config_file_path)

get_ssh_dir(caller_param_config_file_path) ==
    cast_path(caller_param_config_file_path)

\* os.getenv(EnvVarNames.PASSWORD) through cast_path
getenv_PASSWORD(env) ==
    IF env.password = PyNone THEN PyNone ELSE PyPath(env.password.val)

get_and_validate_storage_box_connection(files, the_box, identifier, host, user, ssh_key_dir, password_param, config_file_path, force_password_use, validate_connection, env) ==
    LET password == IF password_param = PyNone THEN getenv_PASSWORD(env)
                    ELSE password_param
        conman == ConnectionManager(config_file_path)
        con == IF identifier # ""
               THEN ConnectionManager_get_connection(conman, files, identifier)
               ELSE None
        hsbt == IF identifier # ""
                THEN from_connection(con)
                ELSE HetznerStorageBox(host, user, PyNone,
                                       KeyManager(ssh_key_dir, host))
        c0 == Context(hsbt, the_box)
        c1 == IF ~force_password_use /\ validate_connection
              THEN public_key_is_deployed(c0, env.sftp_only)
              ELSE c0
        c2 == IF password = PyNone THEN Asked(c1) ELSE c1
        c3 == [c2 EXCEPT !.hsbt.password =
                  IF password = PyNone THEN PyStr(env.answer) ELSE password]
    IN IF identifier # "" /\ con = None
       THEN Raise(Context(None, the_box), "UsageError")
       ELSE IF force_password_use \/ (validate_connection /\ c1.ret # "True")
       THEN IF ~force_password_use
            THEN deploy_public_key_if_not_done(c3, FALSE, env.sftp_only)
            ELSE c3
       ELSE c1

NoCommand ==
    [cmd |-> "none", identifier |-> "", host |-> "", user |-> "",
     ssh_key_dir |-> None, config_file_path |-> None,
     overwrite_existing |-> FALSE, skip_key_deployment |-> FALSE,
     previous |-> None, force_password_use |-> FALSE, password_given |-> FALSE,
     password_param |-> PyNone,
     env_password |-> PyNone, no_exec |-> FALSE, raised |-> "none",
     password |-> PyNone, command |-> None, result |-> None,
     missing_ok |-> FALSE, delete_keys |-> FALSE, returned |-> "none"]

CliIdle ==
    /\ config_files = [p \in ConfigPaths |-> NoFile]
    /\ box = [key_files |-> {}, authorized |-> {}]
    /\ cli = NoCommand
    /\ trace = <<>>

\* a config file root has written with setConnection
RootFile ==
    [exists |-> TRUE,
     connections |-> [i \in {"c1"} |-> Connection(i, "h2", "u2", <<"/", "keys">>)]]

\* the user has stored no connection, root has stored none or one; the key
\* files are not there, or there, or there and deployed at the storage box
CliInit ==
    /\ config_files \in
           {[p \in ConfigPaths |-> IF p = root_config_path THEN f ELSE NoFile] :
               f \in {NoFile, RootFile}}
    /\ box \in {[key_files |-> {}, authorized |-> {}],
                [key_files |-> KeyFiles, authorized |-> {}],
                [key_files |-> KeyFiles, authorized |-> KeyFiles]}
    /\ cli = NoCommand
    /\ trace = <<>>

\* hsbt setConnection -i identifier -h host -u user -s ssh_key_dir [-o] [-k]
SetConnectionCmd ==
    \E identifier \in ConnectionIds, given \in Given,
       overwrite_existing \in BOOLEAN, skip_key_deployment \in BOOLEAN,
       param \in ConfigFileParams, env \in Envs :
        LET config_file_path == get_config_file_path(param)
            ssh_key_dir == get_ssh_dir(get_ssh_dir(given.ssh_key_dir))
            connection_manager == ConnectionManager(config_file_path)
        IN \E set \in {ConnectionManager_set_connection(
                           connection_manager, config_files, identifier,
                           given.user, given.host, ssh_key_dir,
                           overwrite_existing, FALSE)} :
           \E c \in {IF set.raised = "none" /\ ~skip_key_deployment
                     THEN get_and_validate_storage_box_connection(
                              set.files, box, set.con.identifier, "", "",
                              None, PyNone, config_file_path, FALSE, TRUE, env)
                     ELSE Raise(Context(None, box), set.raised)} :
               /\ config_files' = set.files
               /\ box' = c.box
               /\ trace' = c.trace
               /\ cli' = [NoCommand EXCEPT
                      !.cmd = "setConnection",
                      !.identifier = identifier,
                      !.host = given.host,
                      !.user = given.user,
                      !.ssh_key_dir = ssh_key_dir,
                      !.config_file_path = config_file_path,
                      !.overwrite_existing = overwrite_existing,
                      !.skip_key_deployment = skip_key_deployment,
                      !.previous = ConnectionList_get_connection(
                          list_connections_of(config_files,
                              connection_manager.target_config_file), identifier),
                      !.env_password =
                          IF set.raised = "none" /\ ~skip_key_deployment
                          THEN env.password ELSE PyNone,
                      !.raised = c.raised,
                      !.password = IF c.hsbt = None THEN PyNone
                                   ELSE c.hsbt.password]
               /\ UNCHANGED <<ed_vars, proc_vars>>

\* hsbt remoteCmd [-i identifier] [-h host -u user -s ssh_key_dir]
\* [-p password] [-f] [-n] ls
RemoteCmd ==
    \E target \in Targets, password \in PasswordParams,
       force_password_use \in BOOLEAN, no_exec \in BOOLEAN,
       param \in ConfigFileParams, env \in Envs :
        LET config_file_path == get_config_file_path(param)
            ssh_key_dir == get_ssh_dir(get_ssh_dir(target.ssh_key_dir))
        IN \E c \in {get_and_validate_storage_box_connection(
                         config_files, box, target.identifier, target.host,
                         target.user, ssh_key_dir, password.value,
                         config_file_path, force_password_use, FALSE, env)} :
           \E d \in {IF c.raised # "none" THEN c
                     ELSE run_remote_command(c, "ls", PyNone, "ssh", TRUE, FALSE,
                                             TRUE, no_exec, env.sftp_only)} :
               /\ config_files' = config_files
               /\ box' = d.box
               /\ trace' = d.trace
               /\ cli' = [NoCommand EXCEPT
                      !.cmd = "remoteCmd",
                      !.identifier = target.identifier,
                      !.host = target.host,
                      !.user = target.user,
                      !.ssh_key_dir = ssh_key_dir,
                      !.config_file_path = config_file_path,
                      !.force_password_use = force_password_use,
                      !.password_given = password.given,
                      !.password_param = password.value,
                      !.env_password = env.password,
                      !.no_exec = no_exec,
                      !.raised = d.raised,
                      !.password = IF d.hsbt = None THEN PyNone
                                   ELSE d.hsbt.password,
                      !.command = IF d.raised = "none" THEN d.ret.command
                                  ELSE None,
                      !.result = IF d.raised = "none" THEN d.ret ELSE None]
               /\ UNCHANGED <<ed_vars, proc_vars>>

\* the password of a HetznerStorageBox: not set, empty, or a string
BoxPasswords == {PyNone, PyStr(""), PyStr(BoxPassword)}

\* hsbt = HetznerStorageBox(host, user, password, KeyManager(ssh_key_dir,
\* identifier)); hsbt.deploy_public_key_if_not_done()
DeployPublicKeyIfNotDone ==
    \E identifier \in ConnectionIds, given \in Given,
       password \in BoxPasswords, env \in Envs :
        LET ssh_key_dir == cast_path(given.ssh_key_dir)
            hsbt == HetznerStorageBox(given.host, given.user, password,
                                      KeyManager(ssh_key_dir, identifier))
        IN \E c \in {deploy_public_key_if_not_done(
                         Context(hsbt, box), FALSE, env.sftp_only)} :
               /\ config_files' = config_files
               /\ box' = c.box
               /\ trace' = c.trace
               /\ cli' = [NoCommand EXCEPT
                      !.cmd = "deploy_public_key_if_not_done",
                      !.identifier = identifier,
                      !.host = given.host,
                      !.user = given.user,
                      !.ssh_key_dir = ssh_key_dir,
                      !.raised = c.raised,
                      !.password = c.hsbt.password]
               /\ UNCHANGED <<ed_vars, proc_vars>>

\* '-c' of deleteConnection: the default for a user other than root, or a
\* file of its own
DeleteConfigFileParams ==
    {<<"~", ".config", "hetzner_sbt_connections.json">>, custom_config_path}

\* hsbt deleteConnection -i identifier [-m] [-k] [-c config_file_path]
DeleteConnectionCmd ==
    \E identifier \in ConnectionIds, missing_ok \in BOOLEAN,
       delete_keys \in BOOLEAN, param \in DeleteConfigFileParams :
        LET config_file_path == get_config_file_path(param)
            connection_manager == ConnectionManager(config_file_path)
            con == ConnectionManager_get_connection(
                       connection_manager, config_files, identifier)
            \* from_connection(con).key_manager.private_key_path is None
            unlink_raises ==
                /\ con # None
                /\ delete_keys
                /\ from_connection(con).key_manager.private_key_path = None
        IN \E r \in {IF unlink_raises
                     THEN [files |-> config_files, returned |-> "none",
                           raised |-> "AttributeError"]
                     ELSE ConnectionManager_delete_connection(
                              connection_manager, config_files, identifier,
                              missing_ok)} :
               /\ config_files' = r.files
               /\ box' = box
               /\ trace' = <<>>
               /\ cli' = [NoCommand EXCEPT
                      !.cmd = "deleteConnection",
                      !.identifier = identifier,
                      !.config_file_path = config_file_path,
                      !.missing_ok = missing_ok,
                      !.delete_keys = delete_keys,
                      !.previous = con,
                      !.returned = r.returned,
                      !.raised = r.raised]
               /\ UNCHANGED <<ed_vars, proc_vars>>

ConNext == SetConnectionCmd \/ DeleteConnectionCmd

CliNext == SetConnectionCmd \/ RemoteCmd \/ DeployPublicKeyIfNotDone

(***************************************************************************)
(* Vocabulary of the claims on the hsbt commands.                          *)
(***************************************************************************)
\* the connections the target config file of a command holds
StoredIn(files, command) ==
    list_connections_of(files, command.config_file_path)

\* what get_connection finds for the identifier of a command
Found(files, command) ==
    ConnectionManager_get_connection(
        ConnectionManager(command.config_file_path), files, command.identifier)

\* the private key file of a stored connection: key_dir/identifier
KeyFileOf(con) == Path(con.key_dir) \o <<con.identifier>>

\* the command is a setConnection on an identifier the target file holds
SetOnExisting(files, command) ==
    /\ command.cmd = "setConnection"
    /\ command.identifier \in DOMAIN StoredIn(files, command)

(***************************************************************************)
(* C6: setConnection without '-o' on an identifier that exists in the      *)
(* target config file fails with an error and leaves the config files as   *)
(* they are: the existing connection keeps its host, user and key_dir.     *)
(***************************************************************************)
C6_SetWithoutOverwriteFails ==
    [][(SetOnExisting(config_files, cli') /\ ~cli'.overwrite_existing)
         => /\ cli'.raised = "ValueError"
            /\ config_files' = config_files]_vars

\* a setConnection without '-o' that gave another host for a stored
\* identifier has failed, and the stored connection is the one of before
C6_Witness ==
    /\ cli.cmd = "setConnection"
    /\ ~cli.overwrite_existing
    /\ cli.previous # None
    /\ cli.previous.host # cli.host
    /\ cli.raised = "ValueError"
    /\ StoredIn(config_files, cli)[cli.identifier] = cli.previous

(***************************************************************************)
(* C7: setConnection with '-o' on an identifier that exists in the target  *)
(* config file updates it: afterwards get_connection(identifier) returns   *)
(* a connection with the host, the user and the key_dir (as the string of  *)
(* the path set_connection is handed) newly given, and every other         *)
(* connection of the target config file is unchanged.                      *)
(***************************************************************************)
C7_OverwriteUpdates ==
    [][(SetOnExisting(config_files, cli') /\ cli'.overwrite_existing)
         => LET before == StoredIn(config_files, cli')
                after == StoredIn(config_files', cli')
                con == Found(config_files', cli')
            IN /\ con # None
               /\ con.identifier = cli'.identifier
               /\ con.host = cli'.host
               /\ con.user = cli'.user
               /\ con.key_dir = py_str(cli'.ssh_key_dir)
               /\ DOMAIN after = DOMAIN before
               /\ \A other \in DOMAIN before \ {cli'.identifier} :
                      after[other] = before[other]]_vars

\* a setConnection with '-o' has replaced the host, user and key_dir of a
\* stored connection next to another stored connection
C7_Witness ==
    /\ cli.cmd = "setConnection"
    /\ cli.overwrite_existing
    /\ cli.previous # None
    /\ cli.previous.host # cli.host
    /\ cli.previous.key_dir # py_str(cli.ssh_key_dir)
    /\ DOMAIN StoredIn(config_files, cli) = ConnectionIds
    /\ Found(config_files, cli).host = cli.host

(***************************************************************************)
(* C9 as claimed: once the public key of a stored connection is deployed,  *)
(* every ssh or scp command that a command on the connection without a     *)
(* password (remoteCmd -i identifier without '-f') builds or runs asks     *)
(* for public key authentication with IdentityFile key_dir/identifier.     *)
(***************************************************************************)
C9_KeyAuthorizedCommands ==
    (/\ cli.cmd = "remoteCmd"
     /\ cli.identifier # ""
     /\ ~cli.force_password_use
     /\ Found(config_files, cli) # None
     /\ KeyFileOf(Found(config_files, cli)) \in box.key_files \cap box.authorized)
    => LET key == KeyFileOf(Found(config_files, cli))
       IN /\ cli.command # None
                 => /\ cli.command.auth = "publickey"
                    /\ cli.command.identity = key
          /\ \A i \in DOMAIN trace :
                 trace[i].executor \in {"ssh", "scp"}
                     => /\ trace[i].auth = "publickey"
                        /\ trace[i].identity = key

(***************************************************************************)
(* C10 as claimed: the first remoteCmd (without '-f', '-p' and '-n', with  *)
(* HSBT_PASSWORD unset) on a connection just saved with                    *)
(* '--skip-key-deployment' whose key is not deployed asks for the          *)
(* password, then runs ssh-copy-id, then runs the remote command.          *)
(***************************************************************************)
C10_FirstUseExchangesKey ==
    [][(/\ cli.cmd = "setConnection"
        /\ cli.skip_key_deployment
        /\ cli.raised = "none"
        /\ cli'.cmd = "remoteCmd"
        /\ cli'.identifier = cli.identifier
        /\ ~cli'.force_password_use
        /\ ~cli'.password_given
        /\ ~cli'.no_exec
        /\ cli'.env_password = PyNone
        /\ KeyFileOf(Found(config_files, cli)) \notin box.authorized)
         => \E i, j, k \in DOMAIN trace' :
                /\ i < j
                /\ j < k
                /\ trace'[i].kind = "prompt"
                /\ trace'[j].executor = "ssh-copy-id"
                /\ trace'[k].executor = "ssh"
                /\ trace'[k].command = "ls"]_vars

(***************************************************************************)
(* C11 as claimed: deploy_public_key_if_not_done returns without running   *)
(* ssh-copy-id when the public key is already deployed; raises             *)
(* DeployKeyPasswordMissingError without running ssh-copy-id when the key  *)
(* is not deployed and no password is set; runs ssh-copy-id when the key   *)
(* is not deployed and a password is set.                                  *)
(***************************************************************************)
RanSshCopyId(events) ==
    \E i \in DOMAIN events : events[i].executor = "ssh-copy-id"

C11_DeployCases ==
    [][cli'.cmd = "deploy_public_key_if_not_done"
         => LET key == cli'.ssh_key_dir \o <<cli'.identifier>>
                deployed == key \in box.key_files \cap box.authorized
            IN /\ deployed
                    => /\ cli'.raised = "none"
                       /\ ~RanSshCopyId(trace')
               /\ (~deployed /\ ~truthy(cli'.password))
                    => /\ cli'.raised = "DeployKeyPasswordMissingError"
                       /\ ~RanSshCopyId(trace')
               /\ (~deployed /\ truthy(cli'.password))
                    => RanSshCopyId(trace')]_vars

(***************************************************************************)
(* C12 as claimed: after remoteCmd with '--force-password-use' the         *)
(* password of the storage box object is the value of '-p' if given,       *)
(* otherwise HSBT_PASSWORD if set, otherwise the value the user was        *)
(* prompted for; it is a string, and neither ssh-keygen nor ssh-copy-id    *)
(* has run.                                                                *)
(***************************************************************************)
C12_ForcedPassword ==
    (/\ cli.cmd = "remoteCmd"
     /\ cli.force_password_use
     /\ cli.raised # "UsageError")
    => /\ cli.password.kind = "str"
       /\ cli.password_given => cli.password = cli.password_param
       /\ (~cli.password_given /\ cli.env_password # PyNone)
            => cli.password = cli.env_password
       /\ (~cli.password_given /\ cli.env_password = PyNone)
            => \E i \in DOMAIN trace : trace[i].kind = "prompt"
       /\ \A i \in DOMAIN trace :
              trace[i].executor \notin {"ssh-keygen", "ssh-copy-id"}

(***************************************************************************)
(* C13: a dry run only builds and returns the command: after remoteCmd     *)
(* with '--no-exec' no subprocess (ssh, scp, ssh-copy-id, ssh-keygen) has  *)
(* run, and the CommandResult run_remote_command(dry_run=True) returned    *)
(* holds the command and no return code and no error.                      *)
(***************************************************************************)
C13_DryRun ==
    (cli.cmd = "remoteCmd" /\ cli.no_exec)
    => /\ \A i \in DOMAIN trace : trace[i].kind # "run"
       /\ cli.raised \in {"none", "UsageError"}
       /\ cli.raised = "none"
            => /\ cli.result.command.command = "ls"
               /\ cli.result.command.executor = "ssh"
               /\ ~cli.result.ran
               /\ cli.result.return_code = None
               /\ ~cli.result.error_for_raise

\* remoteCmd -n -f on a stored connection whose key is not deployed has
\* returned the command
C13_Witness ==
    /\ cli.cmd = "remoteCmd"
    /\ cli.no_exec
    /\ cli.force_password_use
    /\ cli.identifier \in ConnectionIds
    /\ cli.raised = "none"
    /\ cli.result.command.auth = "publickey"
    /\ box.authorized = {}

(***************************************************************************)
(* C14 as claimed: when delete_connection(identifier) returns True, the    *)
(* source file the connection was found in no longer holds the identifier, *)
(* and when only one file held the identifier, a following                 *)
(* get_connection(identifier) over the same sources returns None.          *)
(***************************************************************************)
\* the sources of a command that hold its identifier
Holding(files, command) ==
    LET sources == sources_of(ConnectionManager(command.config_file_path))
    IN {no \in DOMAIN sources :
           command.identifier \in DOMAIN list_connections_of(files, sources[no])}

C14_DeleteRemoves ==
    [][(cli'.cmd = "deleteConnection" /\ cli'.returned = "True")
         => LET sources == sources_of(ConnectionManager(cli'.config_file_path))
                holding == Holding(config_files, cli')
                found_in == sources[CHOOSE no \in holding :
                                       \A other \in holding : no <= other]
            IN /\ holding # {}
               /\ cli'.identifier \notin
                      DOMAIN list_connections_of(config_files', found_in)
               /\ Cardinality({sources[no] : no \in holding}) = 1
                    => Found(config_files', cli') = None]_vars

(***************************************************************************)
(* C15 as claimed: the stdout of the CommandResult run_command returns     *)
(* holds every non-empty line (as strip() leaves it) the subprocess wrote  *)
(* to its stdout, in order, however the writes and the exit of the         *)
(* subprocess fall between the poll and readline steps of the reader.      *)
(***************************************************************************)
\* the lines of a script as strip() leaves them, without the empty ones
RECURSIVE NonEmptyLines(_)
NonEmptyLines(script) ==
    IF script = <<>> THEN <<>>
    ELSE LET line == strip(Head(script))
         IN (IF line # <<>> THEN <<line>> ELSE <<>>)
                \o NonEmptyLines(Tail(script))

C15_CompleteStdout ==
    (reader.pc = "done" /\ reader.outcome = "returned")
    => reader.stdout_lines = NonEmptyLines(child.script)

Init == EdInit /\ ProcIdle /\ CliIdle
Next == EdNext
Spec == Init /\ [][Next]_vars

InitProc == EdIdle /\ ProcInit /\ CliIdle
NextProc == ProcNext
SpecProc == InitProc /\ [][NextProc]_vars

InitCli == EdIdle /\ ProcIdle /\ CliInit
NextCli == CliNext
SpecCli == InitCli /\ [][NextCli]_vars

InitCon == EdIdle /\ ProcIdle /\ CliInit
NextCon == ConNext
SpecCon == InitCon /\ [][NextCon]_vars

====
